---------------------------- MODULE Spec2Model ----------------------------
(***************************************************************************)
(* Model of the Studio Technologies device-control core:                   *)
(*   - the packet codec and value encoder of StController.sendAwaitAck     *)
(*     (buildValueBytes, buildHeader, crc8DvbS2),                          *)
(*   - the transactor part of StController.sendAwaitAck (one socket, one   *)
(*     timer, once-listeners, send callback),                              *)
(*   - StController.discoverDevices.                                       *)
(* JavaScript numbers are modelled as integers; `x & 0xff` is x % 256      *)
(* (TLA+ % is non-negative, as two's complement masking is).               *)
(***************************************************************************)
EXTENDS Integers, Sequences, FiniteSets, TLC

VARIABLES
    codec,  \* one run of the pure packet-building code on one input
    tx,     \* tx[c]: the state of the c-th sendAwaitAck call
    disc,   \* the state of one discoverDevices call
    ui      \* one run of the schema registry and the table builder on one directory

vars == <<codec, tx, disc, ui>>

---------------------------------------------------------------------------
(* Bit operations on naturals, as JavaScript's ^ and & act on the low bits *)

RECURSIVE BitXor(_, _)
BitXor(a, b) ==
    IF a = 0 THEN b
    ELSE IF b = 0 THEN a
    ELSE ((a + b) % 2) + 2 * BitXor(a \div 2, b \div 2)

Bit7(x) == (x \div 128) % 2

---------------------------------------------------------------------------
(* Values handed to sendAwaitAck: a tagged form of JavaScript's `unknown`. *)
(* t: "null" | "undef" | "bool" | "num" | "arr" | "str"; n: the number, or *)
(* 1/0 for a boolean; a: the elements of an array.                         *)

Null      == [t |-> "null",  n |-> 0, a |-> <<>>]
Undefined == [t |-> "undef", n |-> 0, a |-> <<>>]
Bool(b)   == [t |-> "bool",  n |-> IF b THEN 1 ELSE 0, a |-> <<>>]
Num(n)    == [t |-> "num",   n |-> n, a |-> <<>>]
Arr(a)    == [t |-> "arr",   n |-> 0, a |-> a]
Str       == [t |-> "str",   n |-> 0, a |-> <<>>]

\* The result of code that may throw: ok = FALSE is the thrown Error.
Ok(bytes) == [ok |-> TRUE, bytes |-> bytes]
Throw     == [ok |-> FALSE, bytes |-> <<>>]

\* the three bytes of a large number in the opposite order (blue first)
MutOrder_buildValueBytes(value) ==
    IF value.t = "bool" THEN Ok(<<IF value.n = 1 THEN 1 ELSE 0>>)
    ELSE IF value.t = "arr"
        THEN Ok([i \in 1..Len(value.a) |-> value.a[i] % 256])
    ELSE IF value.t = "num"
        THEN IF value.n > 255
             THEN Ok(<< value.n % 256,
                        (value.n \div 256) % 256,
                        (value.n \div 65536) % 256 >>)
             ELSE Ok(<<value.n % 256>>)
    ELSE Throw

\* the three-byte form taken from 255 on (>= instead of >)
MutEdge_buildValueBytes(value) ==
    IF value.t = "bool" THEN Ok(<<IF value.n = 1 THEN 1 ELSE 0>>)
    ELSE IF value.t = "arr"
        THEN Ok([i \in 1..Len(value.a) |-> value.a[i] % 256])
    ELSE IF value.t = "num"
        THEN IF value.n >= 255
             THEN Ok(<< (value.n \div 65536) % 256,
                        (value.n \div 256) % 256,
                        value.n % 256 >>)
             ELSE Ok(<<value.n % 256>>)
    ELSE Throw

\* stcontroller.ts:154-169
buildValueBytes(value) ==
    IF value.t = "bool" THEN Ok(<<IF value.n = 1 THEN 1 ELSE 0>>)
    ELSE IF value.t = "arr"
        THEN Ok([i \in 1..Len(value.a) |-> value.a[i] % 256])
    ELSE IF value.t = "num"
        THEN IF value.n > 255
             THEN Ok(<< (value.n \div 65536) % 256,
                        (value.n \div 256) % 256,
                        value.n % 256 >>)
             ELSE Ok(<<value.n % 256>>)
    ELSE Throw

\* stcontroller.ts:171-198
buildHeader(totalLength) ==
    << 255, 255, 0, totalLength % 256, 7, 225, 0, 0,
       144, 177, 28, 91, 210, 133, 0, 0,
       83, 116, 117, 100, 105, 111, 45, 84 >>

\* a wrong generator polynomial (0x07)
Mut_crcStep(crc) ==
    IF Bit7(crc) # 0 THEN BitXor(crc * 2, 7) % 256 ELSE (crc * 2) % 256

\* stcontroller.ts:205: one step of the inner loop
crcStep(crc) ==
    IF Bit7(crc) # 0 THEN BitXor(crc * 2, 213) % 256 ELSE (crc * 2) % 256

\* stcontroller.ts:204-206: the inner loop, eight steps
crcShift(crc) ==
    crcStep(crcStep(crcStep(crcStep(crcStep(crcStep(crcStep(crcStep(crc))))))))

\* stcontroller.ts:202-207: the loop `for (const b of data)` over the entries
\* lo..hi, started with the register at crc. The entries are taken in order;
\* the range is split in halves only to keep the evaluation shallow.
RECURSIVE crcFrom(_, _, _, _)
crcFrom(crc, data, lo, hi) ==
    IF lo > hi THEN crc
    ELSE IF lo = hi THEN crcShift(BitXor(crc, data[lo]))
    ELSE LET mid  == (lo + hi) \div 2
             left == crcFrom(crc, data, lo, mid)
         IN  \* crcFrom(left, data, mid + 1, hi), with left evaluated first
             IF left = 0 THEN crcFrom(0, data, mid + 1, hi)
             ELSE crcFrom(left, data, mid + 1, hi)

\* a checksum whose final register is inverted before it is returned
MutXorOut_crc8DvbS2(data) == BitXor(crcFrom(0, data, 1, Len(data)), 255)

\* stcontroller.ts:200-209
crc8DvbS2(data) == crcFrom(0, data, 1, Len(data))

\* The mic-pre-bus command id (types.ts exports it; the export is not in src/):
\* the command id of the mic-pre raw commands, build-commands.ts:383-384.
CMD_MIC_PRE_BUS == 18

\* stcontroller.ts:92-95
dataBlockOf(settingId, value) ==
    LET sid == IF settingId = <<>> THEN <<>> ELSE <<settingId[1] % 256>>
    IN  IF value.t = "null" THEN Ok(sid)
        ELSE LET vb == buildValueBytes(value)
             IN  IF vb.ok THEN Ok(sid \o vb.bytes) ELSE Throw

\* stcontroller.ts:101: the optional length entry of the payload body
lengthEntry(dataBlock) == Len(dataBlock)

\* the length entry counts the bus byte too
Mut_payloadBodyOf(cmdId, addLen, dataBlock) ==
    <<90, cmdId % 256>>
    \o (IF cmdId = CMD_MIC_PRE_BUS THEN <<0>> ELSE <<>>)
    \o (IF addLen
        THEN <<lengthEntry(dataBlock) + (IF cmdId = CMD_MIC_PRE_BUS THEN 1 ELSE 0)>>
        ELSE <<>>)
    \o dataBlock

\* stcontroller.ts:97-102
payloadBodyOf(cmdId, addLen, dataBlock) ==
    <<90, cmdId % 256>>
    \o (IF cmdId = CMD_MIC_PRE_BUS THEN <<0>> ELSE <<>>)
    \o (IF addLen THEN <<lengthEntry(dataBlock)>> ELSE <<>>)
    \o dataBlock

\* Buffer.from(array of numbers): every entry is stored as a byte
BufferFrom(s) == [i \in 1..Len(s) |-> s[i] % 256]

\* the total length without the checksum byte
Mut_packetOf(payloadBody) ==
    LET crc            == crc8DvbS2(payloadBody)
        payloadWithCrc == payloadBody \o <<crc>>
        totalLen       == 24 + Len(payloadBody)
    IN  BufferFrom(buildHeader(totalLen)) \o BufferFrom(payloadWithCrc)

\* stcontroller.ts:107-118: crc, total length, header, packet
packetOf(payloadBody) ==
    LET crc            == crc8DvbS2(payloadBody)
        payloadWithCrc == payloadBody \o <<crc>>
        totalLen       == 24 + Len(payloadWithCrc)
    IN  BufferFrom(buildHeader(totalLen)) \o BufferFrom(payloadWithCrc)

\* stcontroller.ts:92-118: the synchronous part of sendAwaitAck; ok = FALSE
\* when buildValueBytes throws (the async function then rejects)
buildPacket(req) ==
    LET db == dataBlockOf(req.settingId, req.value)
    IN  IF ~db.ok THEN [ok |-> FALSE, body |-> <<>>, packet |-> <<>>]
        ELSE LET body == payloadBodyOf(req.cmdId, req.addLen, db.bytes)
             IN  [ok |-> TRUE, body |-> body, packet |-> packetOf(body)]

---------------------------------------------------------------------------
(* Inputs of the codec runs *)

MaxZeroLen  == 8     \* longest all-zero input of crc8DvbS2 tried
MaxArrayLen == 257   \* longest array value tried (the length byte wraps at 256)

Fill(n, base) == [i \in 1..n |-> (base + 7 * i) % 300]

ArrayLens == (0..3) \cup (224..232) \cup (253..MaxArrayLen)

CodecValues ==
    { Null, Undefined, Str, Bool(TRUE), Bool(FALSE),
      Num(0), Num(1), Num(36), Num(255), Num(256), Num(65280), Num(16744448),
      Arr(<<255, 128, 0>>), Arr(<<511, 0, 256>>) }
    \cup { Arr(Fill(n, 1)) : n \in ArrayLens }

CodecCmdIds     == {7, 10, 13, 14, CMD_MIC_PRE_BUS, 269, CMD_MIC_PRE_BUS + 256}
CodecSettingIds == {<<>>, <<10>>, <<6>>, <<266>>}

Request(model, cmdId, settingId, value, destIp, addLen) ==
    [model |-> model, cmdId |-> cmdId, settingId |-> settingId,
     value |-> value, destIp |-> destIp, addLen |-> addLen]

CodecRequests ==
    { Request("209", c, s, v, "10.0.0.1", l) :
        c \in CodecCmdIds, s \in CodecSettingIds, v \in CodecValues, l \in BOOLEAN }

Check123456789 == <<49, 50, 51, 52, 53, 54, 55, 56, 57>>
SampleBytes    == {0, 1, 2, 7, 16, 90, 127, 128, 213, 255}

CrcInputs ==
    { [i \in 1..n |-> 0] : n \in 0..MaxZeroLen }
    \cup { <<b>> : b \in 0..255 }
    \cup { <<a, b>> : a \in SampleBytes, b \in SampleBytes }
    \cup { Check123456789, <<90, 7, 1, 16>>, <<90, 13, 3, 10, 1>> }

\* values handed to buildValueBytes alone, each with the type its parameter
\* declares (UiSetting.type, build-commands.ts:21); the encoder is not given
\* the type
ColourValues == {0, 128, 255, 256, 65280, 16711680, 16744448, 16777215}

TypedValues ==
    { [ptype |-> "checkbox", value |-> Bool(b)] : b \in BOOLEAN }
    \cup { [ptype |-> "number", value |-> Num(n)] :
              n \in (0..40) \cup (250..260) \cup {65535, 65536, 16777216, 16777221} }
    \cup { [ptype |-> "colorpicker", value |-> Num(n)] : n \in ColourValues }
    \cup { [ptype |-> "dropdown", value |-> v] : v \in {Num(0), Num(3), Str} }
    \cup { [ptype |-> "textinput", value |-> v] : v \in {Str, Undefined} }
    \cup { [ptype |-> "raw", value |-> v] :
              v \in { Arr(<<>>), Arr(<<255, 128, 0>>), Arr(<<511, 0, 256>>),
                      Arr(Fill(5, 1)), Arr(Fill(40, 250)) } }

NoRequest == Request("", 0, <<>>, Null, "", FALSE)
NoPacket  == [ok |-> FALSE, body |-> <<>>, packet |-> <<>>]

CodecIdle == [kind |-> "none", raw |-> <<>>, req |-> NoRequest, ptype |-> "",
              done |-> FALSE, crc |-> 0, out |-> NoPacket, vb |-> Throw]

CodecInputs ==
    { [CodecIdle EXCEPT !.kind = "crc", !.raw = r] : r \in CrcInputs }
    \cup { [CodecIdle EXCEPT !.kind = "packet", !.req = q] : q \in CodecRequests }
    \cup { [CodecIdle EXCEPT !.kind = "value", !.ptype = tv.ptype,
                             !.req = Request("", 0, <<>>, tv.value, "", FALSE)] :
              tv \in TypedValues }

\* a call of buildValueBytes on the input value
ValueCall ==
    /\ codec.kind = "value" /\ ~codec.done
    /\ codec' = [codec EXCEPT !.done = TRUE, !.vb = buildValueBytes(codec.req.value)]
    /\ UNCHANGED <<tx, disc, ui>>

\* a call of crc8DvbS2 on the input bytes
CrcCall ==
    /\ codec.kind = "crc" /\ ~codec.done
    /\ codec' = [codec EXCEPT !.done = TRUE, !.crc = crc8DvbS2(codec.raw)]
    /\ UNCHANGED <<tx, disc, ui>>

\* the packet-building part of a call of sendAwaitAck on the input request
BuildCall ==
    /\ codec.kind = "packet" /\ ~codec.done
    /\ codec' = [codec EXCEPT !.done = TRUE, !.out = buildPacket(codec.req)]
    /\ UNCHANGED <<tx, disc, ui>>

---------------------------------------------------------------------------
(* The transactor: the network part of sendAwaitAck, stcontroller.ts:120-148 *)

NumCalls == 2   \* sendAwaitAck calls that may be in flight together

Calls == 1..NumCalls

defaultPort == 8700

\* the requests the calls are made with
TxRequests ==
    { Request("209", 13, <<10>>, Bool(TRUE), "10.0.0.1", TRUE),
      Request("232", CMD_MIC_PRE_BUS, <<13>>, Num(36), "10.0.0.2", TRUE),
      Request("207", 7, <<16>>, Str, "10.0.0.1", TRUE),
      Request("209", 13, <<10>>, Undefined, "10.0.0.1", TRUE) }

\* datagrams that may arrive at a call's port: source address and bytes
Datagrams ==
    { [src |-> "10.0.0.1", bytes |-> <<90, 13, 1>>],
      [src |-> "10.0.0.9", bytes |-> <<>>] }

NoDatagram == [src |-> "", bytes |-> <<>>]

\* what a promise was settled with; kind "none" while it is not settled
NoValue == [kind |-> "none", bytes |-> <<>>, model |-> "", destIp |-> "", port |-> 0]
Reply(msg)  == [NoValue EXCEPT !.kind = "reply", !.bytes = msg.bytes]
SocketErr   == [NoValue EXCEPT !.kind = "socketError"]
SendErr     == [NoValue EXCEPT !.kind = "sendError"]
Unsupported == [NoValue EXCEPT !.kind = "unsupportedValue"]
\* a timeout message that leaves out the destination address
Mut_TimeoutErr(req) ==
    [NoValue EXCEPT !.kind = "timeout", !.model = req.model, !.port = defaultPort]

\* stcontroller.ts:124: the message names Model${model}, destIp and the port
TimeoutErr(req) ==
    [NoValue EXCEPT !.kind = "timeout", !.model = req.model,
                    !.destIp = req.destIp, !.port = defaultPort]

\* One call. sock: "none" | "open" | "closed"; timer: "none" | "armed" |
\* "cleared" | "fired"; onError/onMessage: the once-listener is registered;
\* sendCb: "none" | "pending" | "called"; promise: "none" | "pending" |
\* "resolved" | "rejected". History: settleCalls counts the calls of
\* resolve/reject, first is the first of message/error/sendError/timeout that
\* ran its handler, rx1 the first datagram the socket received, late that a
\* datagram reached the port after the socket was closed, sent the packets put
\* on the wire, sockets the sockets created, closeThrew that close() was called
\* on a closed socket (it throws).
TxIdle ==
    [req |-> NoRequest, packet |-> <<>>, sock |-> "none", timer |-> "none",
     onError |-> FALSE, onMessage |-> FALSE, sendCb |-> "none",
     promise |-> "none", value |-> NoValue,
     settleCalls |-> 0, first |-> "none", rx1 |-> NoDatagram, late |-> FALSE,
     sent |-> 0, sockets |-> 0, closeThrew |-> FALSE]

\* clearTimeout(timer)
clearTimeout(t) == [t EXCEPT !.timer = IF @ = "armed" THEN "cleared" ELSE @]

\* dgram's socket.close(): closes an open socket (its handle stops receiving);
\* on a socket already closed it throws ERR_SOCKET_DGRAM_NOT_RUNNING
socketClose(t) ==
    IF t.sock = "open" THEN [t EXCEPT !.sock = "closed"]
    ELSE [t EXCEPT !.closeThrew = TRUE]

\* resolve(v) / reject(e) of the promise: only the first call settles it
settle(t, state, v) ==
    [t EXCEPT !.settleCalls = @ + 1,
              !.promise = IF t.promise = "pending" THEN state ELSE @,
              !.value   = IF t.promise = "pending" THEN v ELSE @]

\* a statement after close() runs only if close() did not throw
afterClose(t, next) == IF t.sock = "open" THEN next ELSE socketClose(t)

noteFirst(t, ev) == [t EXCEPT !.first = IF @ = "none" THEN ev ELSE @]

\* a timeout handler that rejects without closing the socket
Mut_onTimeout(t) == settle(t, "rejected", TimeoutErr(t.req))

\* a timeout handler that opens a fresh socket for another attempt
MutRetry_onTimeout(t) ==
    afterClose(t, settle([socketClose(t) EXCEPT !.sockets = @ + 1],
                         "rejected", TimeoutErr(t.req)))

\* stcontroller.ts:122-125
onTimeout(t) ==
    afterClose(t, settle(socketClose(t), "rejected", TimeoutErr(t.req)))

\* stcontroller.ts:127-131
onSocketError(t) ==
    LET t1 == clearTimeout(t)
    IN  afterClose(t1, settle(socketClose(t1), "rejected", SocketErr))

\* a message handler that resolves but leaves the timer and the socket alone
Mut_onSocketMessage(t, msg) == settle(t, "resolved", Reply(msg))

\* a message handler that takes only a datagram from the destination address
MutSrc_onSocketMessage(t, msg) ==
    IF msg.src = t.req.destIp
    THEN LET t1 == clearTimeout(t)
         IN  afterClose(t1, settle(socketClose(t1), "resolved", Reply(msg)))
    ELSE t

\* stcontroller.ts:133-137
onSocketMessage(t, msg) ==
    LET t1 == clearTimeout(t)
    IN  afterClose(t1, settle(socketClose(t1), "resolved", Reply(msg)))

\* stcontroller.ts:140-146
onSendCallback(t, err) ==
    IF err
    THEN LET t1 == clearTimeout(t)
         IN  afterClose(t1, settle(socketClose(t1), "rejected", SendErr))
    ELSE t

\* the socket created before the data block is built
Mut_startCall(req) ==
    LET built == buildPacket(req)
    IN  IF ~built.ok
        THEN [TxIdle EXCEPT !.req = req, !.promise = "rejected",
                            !.sock = "open", !.sockets = 1,
                            !.value = Unsupported, !.settleCalls = 1]
        ELSE [TxIdle EXCEPT !.req = req, !.packet = built.packet,
                            !.sock = "open", !.sockets = 1, !.timer = "armed",
                            !.onError = TRUE, !.onMessage = TRUE,
                            !.sendCb = "pending", !.promise = "pending"]

\* stcontroller.ts:82-147: the call. A value that buildValueBytes refuses makes
\* the async function reject before a socket exists; otherwise the socket is
\* created, the timer armed, both once-listeners registered and send() called.
startCall(req) ==
    LET built == buildPacket(req)
    IN  IF ~built.ok
        THEN [TxIdle EXCEPT !.req = req, !.promise = "rejected",
                            !.value = Unsupported, !.settleCalls = 1]
        ELSE [TxIdle EXCEPT !.req = req, !.packet = built.packet,
                            !.sock = "open", !.sockets = 1, !.timer = "armed",
                            !.onError = TRUE, !.onMessage = TRUE,
                            !.sendCb = "pending", !.promise = "pending"]

SendAwaitAck(c) ==
    /\ tx[c].promise = "none"
    /\ \E req \in TxRequests : tx' = [tx EXCEPT ![c] = startCall(req)]
    /\ UNCHANGED <<codec, disc, ui>>

\* the timer expires (setTimeout's callback runs unless it was cleared)
TimerFire(c) ==
    /\ tx[c].timer = "armed"
    /\ tx' = [tx EXCEPT ![c] =
                 onTimeout(noteFirst([tx[c] EXCEPT !.timer = "fired"], "timeout"))]
    /\ UNCHANGED <<codec, disc, ui>>

\* an 'error' handler that works on a timer shared by all calls
Mut_SocketError(c) ==
    /\ tx[c].sock = "open" /\ tx[c].onError
    /\ tx' = [d \in Calls |->
                 IF d = c
                 THEN onSocketError(noteFirst([tx[c] EXCEPT !.onError = FALSE], "error"))
                 ELSE clearTimeout(tx[d])]
    /\ UNCHANGED <<codec, disc, ui>>

\* the open socket emits 'error'; the once-listener is removed, then run
SocketError(c) ==
    /\ tx[c].sock = "open" /\ tx[c].onError
    /\ tx' = [tx EXCEPT ![c] =
                 onSocketError(noteFirst([tx[c] EXCEPT !.onError = FALSE], "error"))]
    /\ UNCHANGED <<codec, disc, ui>>

\* a datagram reaches the call's port: an open socket emits 'message' (the
\* once-listener is removed, then run); a closed socket receives nothing
Datagram(c) ==
    /\ tx[c].sock # "none"
    /\ \E msg \in Datagrams :
         tx' = [tx EXCEPT ![c] =
                 IF tx[c].sock = "open" /\ tx[c].onMessage
                 THEN onSocketMessage(
                          noteFirst([tx[c] EXCEPT !.onMessage = FALSE, !.rx1 = msg],
                                    "message"), msg)
                 ELSE [tx[c] EXCEPT !.late = TRUE]]
    /\ UNCHANGED <<codec, disc, ui>>

\* send() completes on the open socket: the packet went out (err = null)
SendOk(c) ==
    /\ tx[c].sendCb = "pending" /\ tx[c].sock = "open"
    /\ tx' = [tx EXCEPT ![c] =
                 onSendCallback([tx[c] EXCEPT !.sendCb = "called", !.sent = @ + 1],
                                FALSE)]
    /\ UNCHANGED <<codec, disc, ui>>

\* send() fails: on the open socket (the send is refused), or after the socket
\* was closed with the send still queued (the send is cancelled)
SendFail(c) ==
    /\ tx[c].sendCb = "pending"
    /\ tx' = [tx EXCEPT ![c] =
                 onSendCallback(
                     noteFirst([tx[c] EXCEPT !.sendCb = "called"], "sendError"),
                     TRUE)]
    /\ UNCHANGED <<codec, disc, ui>>

---------------------------------------------------------------------------
(* Discovery: StController.discoverDevices, stcontroller.ts:18-73 *)

MaxReplies == 3   \* datagrams the network brings to the discovery socket

\* source addresses of discovery replies
Ips == {"10.0.0.5", "10.0.0.6"}

\* Reply payloads, as ASCII bytes (msg.toString('utf8') maps them to
\* the same characters):  "Model209 v1.2.3", "xmodel5 12.0.10.7", "hi",
\* and seven binary bytes
Payloads ==
    { <<77, 111, 100, 101, 108, 50, 48, 57, 32, 118, 49, 46, 50, 46, 51>>,
      <<120, 109, 111, 100, 101, 108, 53, 32, 49, 50, 46, 48, 46, 49, 48, 46, 55>>,
      <<104, 105>>,
      <<0, 17, 34, 51, 68, 85, 1>> }

IsDigit(b) == b \in 48..57
Lower(b)   == IF b \in 65..90 THEN b + 32 ELSE b
At(text, i) == IF i \in 1..Len(text) THEN text[i] ELSE -1

\* the index after the longest run of digits that starts at i
RECURSIVE DigitsEnd(_, _)
DigitsEnd(text, i) ==
    IF IsDigit(At(text, i)) THEN DigitsEnd(text, i + 1) ELSE i

\* /Model\d+/i at position i
ModelAt(text, i) ==
    /\ <<Lower(At(text, i)), Lower(At(text, i + 1)), Lower(At(text, i + 2)),
         Lower(At(text, i + 3)), Lower(At(text, i + 4))>>
           = <<109, 111, 100, 101, 108>>
    /\ IsDigit(At(text, i + 5))

\* stcontroller.ts:51,57: the first match of /Model\d+/i, or 'Unknown'
modelMatch(text) ==
    LET starts == {i \in 1..Len(text) : ModelAt(text, i)}
    IN  IF starts = {} THEN <<85, 110, 107, 110, 111, 119, 110>>
        ELSE LET i == CHOOSE k \in starts : \A j \in starts : k <= j
             IN  SubSeq(text, i, DigitsEnd(text, i + 5) - 1)

\* \d+\.\d+\.\d+ at position i: the index after the match, or 0
VersionEnd(text, i) ==
    LET e1 == DigitsEnd(text, i)
        e2 == DigitsEnd(text, e1 + 1)
        e3 == DigitsEnd(text, e2 + 1)
    IN  IF /\ e1 > i      /\ At(text, e1) = 46
           /\ e2 > e1 + 1 /\ At(text, e2) = 46
           /\ e3 > e2 + 1
        THEN e3 ELSE 0

\* where group 1 of /v?(\d+\.\d+\.\d+)/i starts when the match starts at i, or 0
VersionFrom(text, i) ==
    IF Lower(At(text, i)) = 118 /\ VersionEnd(text, i + 1) # 0 THEN i + 1
    ELSE IF VersionEnd(text, i) # 0 THEN i
    ELSE 0

\* stcontroller.ts:52,59: group 1 of the first match, or undefined (<<>>)
fwMatch(text) ==
    LET starts == {i \in 1..Len(text) : VersionFrom(text, i) # 0}
    IN  IF starts = {} THEN <<>>
        ELSE LET i == CHOOSE k \in starts : \A j \in starts : k <= j
                 g == VersionFrom(text, i)
             IN  SubSeq(text, g, VersionEnd(text, g) - 1)

\* the character code of a hexadecimal digit, lower case
HexDigit(n) == IF n < 10 THEN 48 + n ELSE 87 + n

\* stcontroller.ts:53-54,60: the first twelve hex digits of the datagram (its
\* first six bytes), in pairs joined by ':', or undefined (<<>>)
macMatch(msg) ==
    IF Len(msg) < 6 THEN <<>>
    ELSE [k \in 1..17 |->
            IF k % 3 = 0 THEN 58
            ELSE LET b == msg[((k - 1) \div 3) + 1]
                 IN  IF k % 3 = 1 THEN HexDigit(b \div 16) ELSE HexDigit(b % 16)]

\* stcontroller.ts:56-62
deviceInfo(msg, address) ==
    [model |-> modelMatch(msg), ip |-> address, firmware |-> fwMatch(msg),
     mac |-> macMatch(msg), serial |-> <<>>]

\* Object.values(discovered): the records in the order their keys were added
objectValues(d) == [k \in 1..Len(d.keys) |-> d.discovered[d.keys[k]]]

NoInfo == [model |-> <<>>, ip |-> "", firmware |-> <<>>, mac |-> <<>>, serial |-> <<>>]

\* pc: "idle" | "binding" | "collecting" | "returned"; probe: "none" |
\* "queued" | "sent" | "failed"; discovered with keys: the object `discovered`
\* and its keys in insertion order. History: seen[ip] holds the last datagram
\* the 'message' listener got from ip (<<>> if none), nrx counts the datagrams
\* that reached the port, late that one of them came after the socket was
\* closed, resolveCalls the calls of resolve, uncaught that an 'error' event
\* found no listener (EventEmitter throws it), timers the window timers
\* started.
DiscIdle ==
    [pc |-> "idle", sock |-> "none", broadcast |-> FALSE, timer |-> "none",
     onMessage |-> FALSE, onError |-> FALSE, probe |-> "none",
     discovered |-> [ip \in Ips |-> NoInfo], keys |-> <<>>,
     promise |-> "none", returned |-> <<>>,
     seen |-> [ip \in Ips |-> <<>>], nrx |-> 0, late |-> FALSE, resolveCalls |-> 0,
     uncaught |-> FALSE, closeThrew |-> FALSE, timers |-> 0]

\* resolve(Object.values(discovered)): only the first call settles the promise
discResolve(d) ==
    [d EXCEPT !.resolveCalls = @ + 1,
              !.promise  = IF d.promise = "pending" THEN "resolved" ELSE @,
              !.returned = IF d.promise = "pending" THEN objectValues(d) ELSE @,
              !.pc = "returned"]

\* stcontroller.ts:44-47
onWindowTimeout(d) ==
    IF d.sock = "open" THEN discResolve(socketClose(d)) ELSE socketClose(d)

\* stcontroller.ts:67-71
onDiscoveryError(d) ==
    LET d1 == clearTimeout(d)
    IN  IF d1.sock = "open" THEN discResolve(socketClose(d1)) ELSE socketClose(d1)

\* a message handler that keeps the first record of an address
Mut_onDiscoveryMessage(d, msg, address) ==
    IF \E k \in 1..Len(d.keys) : d.keys[k] = address THEN d
    ELSE [d EXCEPT !.discovered[address] = deviceInfo(msg, address),
                   !.keys = Append(@, address)]

\* stcontroller.ts:49-65
onDiscoveryMessage(d, msg, address) ==
    [d EXCEPT !.discovered[address] = deviceInfo(msg, address),
              !.keys = IF \E k \in 1..Len(d.keys) : d.keys[k] = address
                       THEN @ ELSE Append(@, address)]

\* stcontroller.ts:18-23: the socket is created and bind() is requested
DiscoverDevices ==
    /\ disc.pc = "idle"
    /\ disc' = [disc EXCEPT !.pc = "binding", !.sock = "open", !.promise = "pending"]
    /\ UNCHANGED <<codec, tx, ui>>

\* stcontroller.ts:23-72: the bind callback runs, then the rest of the function:
\* broadcast on, the probe handed to send(), the window timer and both listeners
BindDone ==
    /\ disc.pc = "binding" /\ ~disc.uncaught
    /\ disc' = [disc EXCEPT !.pc = "collecting", !.broadcast = TRUE,
                            !.probe = "queued", !.timer = "armed",
                            !.timers = @ + 1,
                            !.onMessage = TRUE, !.onError = TRUE]
    /\ UNCHANGED <<codec, tx, ui>>

\* bind() fails: the socket emits 'error' while no 'error' listener exists
\* (stcontroller.ts:22-27 registers none), so the event is thrown; the bind
\* callback never runs
BindError ==
    /\ disc.pc = "binding" /\ ~disc.uncaught
    /\ disc' = [disc EXCEPT !.uncaught = TRUE]
    /\ UNCHANGED <<codec, tx, ui>>

\* stcontroller.ts:41: the probe goes out
ProbeSent ==
    /\ disc.probe = "queued"
    /\ disc' = [disc EXCEPT !.probe = "sent"]
    /\ UNCHANGED <<codec, tx, ui>>

\* stcontroller.ts:41: send() has no callback, so a failed send emits 'error'
ProbeFail ==
    /\ disc.probe = "queued"
    /\ disc' = onDiscoveryError([disc EXCEPT !.probe = "failed"])
    /\ UNCHANGED <<codec, tx, ui>>

\* the window timer expires
WindowTimerFire ==
    /\ disc.timer = "armed" /\ disc.probe # "queued"
    /\ disc' = onWindowTimeout([disc EXCEPT !.timer = "fired"])
    /\ UNCHANGED <<codec, tx, ui>>

\* the open socket emits 'error' while collecting
DiscSocketError ==
    /\ disc.sock = "open" /\ disc.onError /\ disc.probe \in {"sent"}
    /\ disc' = onDiscoveryError(disc)
    /\ UNCHANGED <<codec, tx, ui>>

\* the 'message' listener still runs for a datagram that comes after the
\* socket was closed
Mut_DiscDatagram ==
    /\ disc.pc \in {"collecting", "returned"} /\ disc.probe # "queued"
    /\ disc.nrx < MaxReplies
    /\ \E ip \in Ips, msg \in Payloads :
         LET d == [disc EXCEPT !.nrx = @ + 1]
         IN  disc' = onDiscoveryMessage([d EXCEPT !.seen[ip] = <<msg>>], msg, ip)
    /\ UNCHANGED <<codec, tx, ui>>

\* a datagram reaches the discovery port: an open socket emits 'message';
\* a closed socket receives nothing
DiscDatagram ==
    /\ disc.pc \in {"collecting", "returned"} /\ disc.probe # "queued"
    /\ disc.nrx < MaxReplies
    /\ \E ip \in Ips, msg \in Payloads :
         LET d == [disc EXCEPT !.nrx = @ + 1]
         IN  disc' = IF d.sock = "open" /\ d.onMessage
                     THEN onDiscoveryMessage([d EXCEPT !.seen[ip] = <<msg>>], msg, ip)
                     ELSE [d EXCEPT !.late = TRUE]
    /\ UNCHANGED <<codec, tx, ui>>

---------------------------------------------------------------------------
(* The schema registry: loadUiSchemas, build-commands.ts:32-40 *)

\* File names are sequences of characters.
JsonSuffix     == <<".", "j", "s", "o", "n">>
CommandsSuffix == <<"_", "c", "o", "m", "m", "a", "n", "d", "s">> \o JsonSuffix

\* String.prototype.endsWith
endsWith(name, suffix) ==
    /\ Len(name) >= Len(suffix)
    /\ SubSeq(name, Len(name) - Len(suffix) + 1, Len(name)) = suffix

\* A parameter descriptor of a schema (UiSetting & { cmd_id, id },
\* build-commands.ts:19-30, 50): choices is the set of the choice ids.
Descriptor(id, cmdId, type, name, label, min, max, choices) ==
    [id |-> id, cmd_id |-> cmdId, type |-> type, name |-> name, label |-> label,
     min |-> min, max |-> max, choices |-> choices]

TalkbackToggle ==
    Descriptor(10, 13, "checkbox", "TalkbackToggle", "Talkback", 0, 0, {})
TalkbackLatch ==
    Descriptor(10, 13, "checkbox", "TalkbackLatch", "Talkback latch", 0, 0, {})
EncoderMode ==
    Descriptor(5, 13, "dropdown", "EncoderMode", "Encoder mode", 0, 0, {0, 1, 2})
EncoderColor ==
    Descriptor(6, 13, "colorpicker", "EncoderColor", "Encoder color", 0, 0, {})
MicGain ==
    Descriptor(13, CMD_MIC_PRE_BUS, "number", "MicGain", "Mic gain", 0, 60, {})
MicTrim ==
    Descriptor(13, 14, "number", "MicTrim", "Mic trim", 0, 20, {})

\* What JSON.parse makes of a file. json: "invalid" (not JSON: parse throws)
\* or "object"; hasModel/model: the member
\* `model`; hasActions/actions, hasFeedbacks/feedbacks: the members `actions`
\* and `feedbacks`.
Schema(hasModel, model, hasActions, actions, hasFeedbacks, feedbacks) ==
    [json |-> "object", hasModel |-> hasModel, model |-> model,
     hasActions |-> hasActions, actions |-> actions,
     hasFeedbacks |-> hasFeedbacks, feedbacks |-> feedbacks]

NotJson  == [Schema(FALSE, "", FALSE, <<>>, FALSE, <<>>) EXCEPT !.json = "invalid"]

File(name, content) == [name |-> name, content |-> content]

\* the files a directory may hold
FilePool ==
    { File(<<"a">> \o JsonSuffix,
           Schema(TRUE, "209", TRUE, <<TalkbackToggle, EncoderMode, TalkbackLatch>>,
                  TRUE, <<TalkbackToggle, TalkbackLatch>>)),
      File(<<"b">> \o JsonSuffix,
           Schema(TRUE, "45", TRUE, <<MicGain, MicTrim>>, FALSE, <<>>)),
      File(<<"c">> \o JsonSuffix,
           Schema(TRUE, "Model207", FALSE, <<>>, TRUE, <<EncoderMode>>)),
      File(<<"d">> \o JsonSuffix,
           Schema(FALSE, "", TRUE, <<EncoderColor>>, TRUE, <<EncoderColor>>)),
      File(<<"e">> \o JsonSuffix, NotJson),
      File(<<"f">> \o JsonSuffix,
           Schema(TRUE, "209", TRUE, <<EncoderColor>>, TRUE, <<>>)),
      File(<<"g">> \o JsonSuffix,
           Schema(TRUE, "Model391", TRUE, <<TalkbackToggle, TalkbackLatch>>,
                  TRUE, <<EncoderColor>>)),
      File(<<"a">> \o CommandsSuffix,
           Schema(TRUE, "209raw", TRUE, <<MicGain>>, TRUE, <<MicGain>>)),
      File(<<"n", ".", "t", "x", "t">>, NotJson) }

MaxFiles == 3   \* most files in a directory

\* fs.readdirSync(dir): the files of a directory, names distinct, in the order
\* the file system lists them
Dirs ==
    { d \in UNION { [1..n -> FilePool] : n \in 0..MaxFiles } :
        \A i \in DOMAIN d : \A j \in DOMAIN d : i # j => d[i].name # d[j].name }

\* The own enumerable string keys of a JavaScript object are listed with
\* the canonical array indices first, in ascending order, then the other
\* keys in insertion order. IndexOf(key): the index a key denotes, -1 if none.
IndexOf(key) ==
    CASE key = "45"  -> 45
      [] key = "209" -> 209
      [] OTHER       -> -1

\* A registry (Record<string, any>) is the sequence of its [key, value]
\* entries in the order Object.entries lists them.
\* out[key] = value
objectSet(out, key, value) ==
    IF \E i \in DOMAIN out : out[i].key = key
    THEN [i \in DOMAIN out |->
             IF out[i].key = key THEN [key |-> key, value |-> value] ELSE out[i]]
    ELSE IF IndexOf(key) < 0
    THEN Append(out, [key |-> key, value |-> value])
    ELSE LET before == SelectSeq(out, LAMBDA e :
                           IndexOf(e.key) >= 0 /\ IndexOf(e.key) < IndexOf(key))
             after  == SelectSeq(out, LAMBDA e :
                           IndexOf(e.key) < 0 \/ IndexOf(e.key) > IndexOf(key))
         IN  before \o <<[key |-> key, value |-> value]>> \o after

\* the property key `j.model` gives: a missing member reads as undefined,
\* whose key is the string "undefined"
modelKey(j) == IF j.hasModel THEN j.model ELSE "undefined"

\* every .json file is read, the raw-command files too
Mut_uiFiles(dir) ==
    SelectSeq(dir, LAMBDA f : endsWith(f.name, JsonSuffix))

\* build-commands.ts:33
uiFiles(dir) ==
    SelectSeq(dir, LAMBDA f :
        endsWith(f.name, JsonSuffix) /\ ~endsWith(f.name, CommandsSuffix))

LoadOk(out) == [ok |-> TRUE, out |-> out]
LoadThrow   == [ok |-> FALSE, out |-> <<>>]

\* build-commands.ts:35-38: the loop over files[i..], out being the registry
\* so far. JSON.parse throws on a file that is not JSON.
RECURSIVE loadFrom(_, _, _)
loadFrom(files, i, out) ==
    IF i > Len(files) THEN LoadOk(out)
    ELSE LET j == files[i].content
         IN  IF j.json # "object" THEN LoadThrow
             ELSE loadFrom(files, i + 1, objectSet(out, modelKey(j), j))

\* build-commands.ts:32-40
loadUiSchemas(dir) == loadFrom(uiFiles(dir), 1, <<>>)

---------------------------------------------------------------------------
(* The table builder: buildActions and buildFeedbacks,                     *)
(* build-commands.ts:42-122                                                *)

\* A table (Record<string, any>) is a function from its keys to its entries.
\* table[key] = entry
tableSet(table, key, entry) ==
    [k \in DOMAIN table \cup {key} |-> IF k = key THEN entry ELSE table[k]]

EmptyTable == [k \in {} |-> 0]

\* build-commands.ts:54: `${model}_${s.id}`
actionId(model, s) == model \o "_" \o ToString(s.id)

\* build-commands.ts:55-70. The entry keeps what its callback closes over:
\* model, s and sendFn.
actionEntry(model, s, sendFn) ==
    [name   |-> "Model" \o model \o ": Set " \o s.name,
     option |-> [id      |-> ToString(s.id),
                 type    |-> s.type,
                 label   |-> s.label,
                 choices |-> IF s.type = "dropdown" THEN s.choices ELSE {},
                 min     |-> IF s.type = "number" THEN s.min ELSE 0,
                 max     |-> IF s.type = "number" THEN s.max ELSE 0,
                 range   |-> s.type = "number"],
     model  |-> model, s |-> s, sendFn |-> sendFn]

\* build-commands.ts:53-84: the loop over actionDef[k..]
RECURSIVE addActions(_, _, _, _, _)
addActions(model, actionDef, k, actions, sendFn) ==
    IF k > Len(actionDef) THEN actions
    ELSE addActions(model, actionDef, k + 1,
                    tableSet(actions, actionId(model, actionDef[k]),
                             actionEntry(model, actionDef[k], sendFn)),
                    sendFn)

\* build-commands.ts:49-87: the loop over Object.entries(schemas)[i..]; a
\* schema without `actions` returns the table built so far
RECURSIVE actionsFrom(_, _, _, _)
actionsFrom(schemas, i, actions, sendFn) ==
    IF i > Len(schemas) THEN actions
    ELSE IF ~schemas[i].value.hasActions THEN actions
    ELSE actionsFrom(schemas, i + 1,
                     addActions(schemas[i].key, schemas[i].value.actions, 1,
                                actions, sendFn),
                     sendFn)

BuildOk(table) == [ok |-> TRUE, table |-> table]
BuildThrow     == [ok |-> FALSE, table |-> EmptyTable]

\* build-commands.ts:42-88; it throws when loadUiSchemas does
buildActions(dir, sendFn) ==
    LET schemas == loadUiSchemas(dir)
    IN  IF ~schemas.ok THEN BuildThrow
        ELSE BuildOk(actionsFrom(schemas.out, 1, EmptyTable, sendFn))

\* build-commands.ts:100: `${model}_${s.id}_state`
fbId(model, s) == model \o "_" \o ToString(s.id) \o "_state"

\* build-commands.ts:101-117
feedbackEntry(model, s) ==
    [name   |-> model \o ": " \o s.label \o " state",
     type   |-> "boolean",
     option |-> [id      |-> ToString(s.id),
                 type    |-> IF s.type = "checkbox" THEN "checkbox"
                             ELSE IF s.type = "dropdown" THEN "dropdown"
                             ELSE "textinput",
                 label   |-> s.label,
                 choices |-> s.choices],
     model  |-> model, s |-> s]

\* build-commands.ts:99-118
RECURSIVE addFeedbacks(_, _, _, _)
addFeedbacks(model, feedbackDef, k, feedbacks) ==
    IF k > Len(feedbackDef) THEN feedbacks
    ELSE addFeedbacks(model, feedbackDef, k + 1,
                      tableSet(feedbacks, fbId(model, feedbackDef[k]),
                               feedbackEntry(model, feedbackDef[k])))

\* build-commands.ts:94-121; a schema without `feedbacks` returns the table
\* built so far
RECURSIVE feedbacksFrom(_, _, _)
feedbacksFrom(schemas, i, feedbacks) ==
    IF i > Len(schemas) THEN feedbacks
    ELSE IF ~schemas[i].value.hasFeedbacks THEN feedbacks
    ELSE feedbacksFrom(schemas, i + 1,
                       addFeedbacks(schemas[i].key, schemas[i].value.feedbacks, 1,
                                    feedbacks))

\* build-commands.ts:90-122
buildFeedbacks(dir) ==
    LET schemas == loadUiSchemas(dir)
    IN  IF ~schemas.ok THEN BuildThrow
        ELSE BuildOk(feedbacksFrom(schemas.out, 1, EmptyTable))

---------------------------------------------------------------------------
(* Invoking an action: the callback of build-commands.ts:75-82 and the     *)
(* send function of UpdateActions, actions.ts:14-26                        *)

\* self.config.host
ConfigHost == "10.0.0.1"

\* x.toString(16) throws a TypeError when x is undefined or null
toStringThrows(x) == x.t \in {"undef", "null"}

\* What an invocation came to. outcome: "none" | "resolved" | "rejected" |
\* "awaits" (it awaits the sendAwaitAck call of calls); error: the error it
\* was rejected with; calls: the arguments of the sendAwaitAck calls made.
NoInvocation ==
    [key |-> "", value |-> Null, outcome |-> "none", error |-> "none",
     calls |-> <<>>]

\* actions.ts:14-26: sendFn(model, cmdId, busCh, settingId, value). The log
\* line of l.19-22 formats cmdId, settingId and value with toString(16) before
\* sendAwaitAck is called with (model, cmdId, busCh, settingId, value, host).
sendFnOfUpdateActions(model, cmdId, busCh, settingId, value) ==
    IF toStringThrows(cmdId) \/ toStringThrows(settingId) \/ toStringThrows(value)
    THEN [NoInvocation EXCEPT !.outcome = "rejected", !.error = "TypeError"]
    ELSE [NoInvocation EXCEPT
             !.outcome = "awaits",
             !.calls = << [model |-> model, cmdId |-> cmdId, settingId |-> busCh,
                           value |-> settingId, destIp |-> value,
                           addLen |-> ConfigHost] >>]

\* build-commands.ts:75-82: the option value goes to sendFn as it is, with
\* four arguments (a fifth parameter of sendFn is undefined); without sendFn
\* the callback logs and returns
callback(entry, value) ==
    IF entry.sendFn = "none"
    THEN [NoInvocation EXCEPT !.outcome = "resolved"]
    ELSE sendFnOfUpdateActions(entry.model, Num(entry.s.cmd_id), Num(entry.s.id),
                               value, Undefined)

\* the option values an invocation may carry (event.options[id])
OptionValues == {Bool(TRUE), Num(1), Num(300), Str, Undefined}

\* A state snapshot handed to a feedback callback (its `state` argument):
\* defined = FALSE is `undefined`; models are the model keys it holds an
\* object for; values are the settings those objects hold.
Snapshot(defined, models, values) ==
    [defined |-> defined, models |-> models, values |-> values]
Setting(model, id, value) == [model |-> model, id |-> id, value |-> value]

\* build-commands.ts:114: state?.[model]?.[s.id]
lookup(state, model, id) ==
    IF ~state.defined THEN Undefined
    ELSE IF model \notin state.models THEN Undefined
    ELSE IF \E e \in state.values : e.model = model /\ e.id = id
         THEN (CHOOSE e \in state.values : e.model = model /\ e.id = id).value
         ELSE Undefined

\* `==` of JavaScript on primitive values: booleans are compared as numbers
Mut_strictEquals(a, b) ==
    IF a.t \in {"bool", "num"} /\ b.t \in {"bool", "num"} THEN a.n = b.n
    ELSE a = b

\* build-commands.ts:115: `===` on primitive values (same type, same value)
strictEquals(a, b) == a = b

\* build-commands.ts:113-116: the callback of a feedback entry, called with
\* the feedback's value of options[s.id.toString()] and a snapshot; result
\* is what it returns, state the snapshot as the call leaves it.
feedbackCallback(entry, option, state) ==
    LET current == lookup(state, entry.model, entry.s.id)
    IN  [result |-> strictEquals(current, option), state |-> state]

NoEvaluation ==
    [evaluated |-> FALSE, key |-> "", option |-> Undefined,
     state |-> Snapshot(FALSE, {}, {}), result |-> FALSE,
     stateAfter |-> Snapshot(FALSE, {}, {})]

Snapshots ==
    { Snapshot(FALSE, {}, {}),
      Snapshot(TRUE, {}, {}),
      Snapshot(TRUE, {"209"}, {}),
      Snapshot(TRUE, {"209"}, {Setting("209", 10, Bool(TRUE))}),
      Snapshot(TRUE, {"209", "Model391", "Model207"},
               {Setting("209", 10, Num(1)), Setting("Model391", 6, Num(255)),
                Setting("Model207", 5, Num(1))}) }

FeedbackOptionValues == {Bool(TRUE), Num(1), Num(255), Undefined}

\* One run of an exported function of build-commands.ts on a directory.
\* kind: "none" | "load" | "actions" | "feedbacks"; sendFn: the send function
\* buildActions is given ("none": the argument is left out); done: the
\* function has returned or thrown; registry: what loadUiSchemas returned
\* (ok = FALSE: it threw); table: what buildActions or buildFeedbacks
\* returned; inv: the last invocation of a callback of the action table;
\* fb: the last evaluation of a callback of the feedback table.
UiIdle ==
    [kind |-> "none", dir |-> <<>>, sendFn |-> "none", done |-> FALSE,
     registry |-> LoadThrow, table |-> BuildThrow, inv |-> NoInvocation,
     fb |-> NoEvaluation]

UiInputs ==
    { [UiIdle EXCEPT !.kind = "load", !.dir = d] : d \in Dirs }
    \cup { [UiIdle EXCEPT !.kind = "actions", !.dir = d, !.sendFn = f] :
              d \in Dirs, f \in {"none", "UpdateActions"} }
    \cup { [UiIdle EXCEPT !.kind = "feedbacks", !.dir = d] : d \in Dirs }

\* a call of loadUiSchemas on the directory
LoadUiSchemasCall ==
    /\ ui.kind = "load" /\ ~ui.done
    /\ ui' = [ui EXCEPT !.done = TRUE, !.registry = loadUiSchemas(ui.dir)]
    /\ UNCHANGED <<codec, tx, disc>>

\* a call of buildActions on the directory
BuildActionsCall ==
    /\ ui.kind = "actions" /\ ~ui.done
    /\ ui' = [ui EXCEPT !.done = TRUE, !.table = buildActions(ui.dir, ui.sendFn)]
    /\ UNCHANGED <<codec, tx, disc>>

\* a call of buildFeedbacks on the directory
BuildFeedbacksCall ==
    /\ ui.kind = "feedbacks" /\ ~ui.done
    /\ ui' = [ui EXCEPT !.done = TRUE, !.table = buildFeedbacks(ui.dir)]
    /\ UNCHANGED <<codec, tx, disc>>

\* the callback of an entry of the built action table is invoked
ActionCallback ==
    /\ ui.kind = "actions" /\ ui.done /\ ui.table.ok
    /\ \E key \in DOMAIN ui.table.table, v \in OptionValues :
          ui' = [ui EXCEPT !.inv =
                    [callback(ui.table.table[key], v) EXCEPT !.key = key,
                                                             !.value = v]]
    /\ UNCHANGED <<codec, tx, disc>>

\* the callback of an entry of the built feedback table is evaluated
FeedbackCallback ==
    /\ ui.kind = "feedbacks" /\ ui.done /\ ui.table.ok
    /\ \E key \in DOMAIN ui.table.table, o \in FeedbackOptionValues,
          st \in Snapshots :
          LET r == feedbackCallback(ui.table.table[key], o, st)
          IN  ui' = [ui EXCEPT !.fb =
                        [evaluated |-> TRUE, key |-> key, option |-> o,
                         state |-> st, result |-> r.result,
                         stateAfter |-> r.state]]
    /\ UNCHANGED <<codec, tx, disc>>

---------------------------------------------------------------------------
(* Specifications *)

\* the codec on one input
CodecInit ==
    /\ codec \in CodecInputs /\ tx = [c \in Calls |-> TxIdle]
    /\ disc = DiscIdle /\ ui = UiIdle
CodecNext == CrcCall \/ BuildCall \/ ValueCall
CodecSpec == CodecInit /\ [][CodecNext]_vars

\* concurrent sendAwaitAck calls
Init ==
    /\ codec = CodecIdle /\ tx = [c \in Calls |-> TxIdle]
    /\ disc = DiscIdle /\ ui = UiIdle
Next ==
    \E c \in Calls :
        \/ SendAwaitAck(c)
        \/ TimerFire(c)
        \/ SocketError(c)
        \/ Datagram(c)
        \/ SendOk(c)
        \/ SendFail(c)
Spec == Init /\ [][Next]_vars

\* the event loop runs an expired timer's callback
LiveSpec == Spec /\ \A c \in Calls : WF_vars(TimerFire(c))

\* one discoverDevices call
DiscNext ==
    \/ DiscoverDevices
    \/ BindDone
    \/ BindError
    \/ ProbeSent
    \/ ProbeFail
    \/ WindowTimerFire
    \/ DiscSocketError
    \/ DiscDatagram
DiscSpec == Init /\ [][DiscNext]_vars

\* one sendAwaitAck call and one discoverDevices call side by side
NetNext ==
    \/ SendAwaitAck(1)
    \/ TimerFire(1)
    \/ SocketError(1)
    \/ Datagram(1)
    \/ SendOk(1)
    \/ SendFail(1)
    \/ DiscNext
NetSpec == Init /\ [][NetNext]_vars

\* the schema registry and the table builder on one directory
UiInit ==
    /\ codec = CodecIdle /\ tx = [c \in Calls |-> TxIdle]
    /\ disc = DiscIdle /\ ui \in UiInputs
UiNext ==
    \/ LoadUiSchemasCall \/ BuildActionsCall \/ BuildFeedbacksCall
    \/ ActionCallback \/ FeedbackCallback
UiSpec == UiInit /\ [][UiNext]_vars

---------------------------------------------------------------------------
(* Claims about the transactor *)

Settled(t) == t.promise \in {"resolved", "rejected"}

\* what the first event of a call makes of its promise
FirstDecides(t) ==
    CASE t.first = "none"      -> t.promise = "pending"
      [] t.first = "message"   -> t.promise = "resolved" /\ t.value = Reply(t.rx1)
      [] t.first = "error"     -> t.promise = "rejected" /\ t.value = SocketErr
      [] t.first = "sendError" -> t.promise = "rejected" /\ t.value = SendErr
      [] t.first = "timeout"   -> t.promise = "rejected" /\ t.value.kind = "timeout"

\* C1: a sendAwaitAck call that reached the network phase is settled exactly
\* once: resolve/reject is called at most once, the first of reply, socket
\* error, send-callback error and timeout decides the outcome, and no later
\* step changes a settled outcome.
C1_SettlesExactlyOnce ==
    /\ [](\A c \in Calls :
            tx[c].sock # "none" =>
                /\ tx[c].settleCalls <= 1
                /\ (Settled(tx[c]) <=> tx[c].settleCalls = 1)
                /\ FirstDecides(tx[c]))
    /\ [][\A c \in Calls :
            Settled(tx[c]) =>
                /\ tx'[c].promise = tx[c].promise
                /\ tx'[c].value = tx[c].value
                /\ tx'[c].settleCalls = tx[c].settleCalls]_vars

\* a reply settled the call, and afterwards the send callback reported an
\* error and another datagram reached the port
C1_Witness ==
    \E c \in Calls :
        /\ tx[c].promise = "resolved" /\ tx[c].first = "message"
        /\ tx[c].sendCb = "called" /\ tx[c].closeThrew /\ tx[c].late

\* C2: a completed sendAwaitAck or discoverDevices call has closed the socket
\* it opened.
C2_CompletedCallClosedItsSocket ==
    /\ \A c \in Calls :
          (Settled(tx[c]) /\ tx[c].sockets > 0) => tx[c].sock = "closed"
    /\ \A c \in Calls : Settled(tx[c]) => tx[c].sock # "open"
    /\ disc.promise \in {"resolved", "rejected"} => disc.sock = "closed"
    /\ disc.pc = "returned" => disc.sock = "closed"

\* the transaction failed in its send callback and the discovery ended on a
\* failed probe send; both sockets are closed
C2_Witness ==
    /\ tx[1].first = "sendError" /\ tx[1].promise = "rejected"
    /\ tx[1].sock = "closed"
    /\ disc.probe = "failed" /\ disc.promise = "resolved" /\ disc.sock = "closed"

\* C3: a pending sendAwaitAck call does not stay pending: unless a datagram, a
\* socket error or a send error comes first, the timer fires and the call is
\* rejected with the timeout error that names its model and destination
\* address.
C3_TimeoutRejects ==
    \A c \in Calls :
        (tx[c].promise = "pending")
            ~> \/ /\ tx[c].promise = "rejected"
                  /\ tx[c].value.kind = "timeout"
                  /\ tx[c].value.model = tx[c].req.model
                  /\ tx[c].value.destIp = tx[c].req.destIp
                  /\ tx[c].value.port = 8700
                  /\ tx[c].timer = "fired"
               \/ tx[c].first \in {"message", "error", "sendError"}

\* a call to 10.0.0.2 that saw no datagram and no error was rejected with the
\* timeout error for model 232 at 10.0.0.2
C3_Witness ==
    \E c \in Calls :
        /\ tx[c].promise = "rejected" /\ tx[c].first = "timeout"
        /\ tx[c].rx1 = NoDatagram /\ ~tx[c].late
        /\ tx[c].value.model = "232" /\ tx[c].value.destIp = "10.0.0.2"

\* C4: when a datagram is the first event of a call, the call resolves with
\* exactly that datagram's bytes, whatever its source or content, and no later
\* step (a later datagram included) changes the result.
C4_FirstDatagramResolves ==
    /\ [](\A c \in Calls :
            tx[c].first = "message" =>
                /\ tx[c].promise = "resolved"
                /\ tx[c].value.kind = "reply"
                /\ tx[c].value.bytes = tx[c].rx1.bytes)
    /\ [][\A c \in Calls :
            tx[c].promise = "resolved" =>
                /\ tx'[c].promise = "resolved"
                /\ tx'[c].value = tx[c].value
                /\ tx'[c].rx1 = tx[c].rx1]_vars

\* a call to 10.0.0.1 resolved with the empty datagram of another host, and a
\* later datagram reached its port
C4_Witness ==
    \E c \in Calls :
        /\ tx[c].promise = "resolved" /\ tx[c].req.destIp = "10.0.0.1"
        /\ tx[c].rx1.src = "10.0.0.9" /\ tx[c].value.bytes = <<>>
        /\ tx[c].late

\* C7: calls in flight together own their sockets and timers: a step in which
\* one call handles a reply, an error or a timeout changes nothing of any other
\* call (socket, timer, listeners, outcome).
C7_CallsAreIndependent ==
    [][\A c \in Calls : \A d \in Calls :
          (c # d /\ tx'[c] # tx[c]) => tx'[d] = tx[d]]_vars

\* one call was settled while the other is still pending with its socket open
\* and its timer armed
C7_Witness ==
    \E c \in Calls : \E d \in Calls :
        /\ c # d
        /\ Settled(tx[c]) /\ tx[c].sock = "closed"
        /\ tx[d].promise = "pending" /\ tx[d].sock = "open" /\ tx[d].timer = "armed"

---------------------------------------------------------------------------
(* Claims about discovery *)

\* C5: discoverDevices always completes by returning the records gathered so
\* far: no socket error, in any phase, is thrown or rejects the call.
\* (Fails: an 'error' event during bind finds no listener and is thrown.)
C5_SocketErrorNeverEscapes ==
    /\ ~disc.uncaught
    /\ disc.promise # "rejected"

\* C6: the returned list holds exactly one record per source address seen in
\* the window, and it carries the fields parsed from the last datagram of that
\* address.
C6_OneRecordPerIpLastWins ==
    disc.promise = "resolved" =>
        LET seenIps == {ip \in Ips : disc.seen[ip] # <<>>}
            r       == disc.returned
        IN  /\ Len(r) = Cardinality(seenIps)
            /\ \A ip \in seenIps :
                 /\ Cardinality({k \in 1..Len(r) : r[k].ip = ip}) = 1
                 /\ \A k \in 1..Len(r) :
                      r[k].ip = ip =>
                          /\ r[k].model    = modelMatch(disc.seen[ip][1])
                          /\ r[k].firmware = fwMatch(disc.seen[ip][1])
                          /\ r[k].mac      = macMatch(disc.seen[ip][1])
            /\ \A k \in 1..Len(r) : r[k].ip \in seenIps

\* three replies in the window, two of them from 10.0.0.5, gave two records;
\* the one of 10.0.0.5 is that of "xmodel5 12.0.10.7": model "model5",
\* firmware "12.0.10", mac "78:6d:6f:64:65:6c"
C6_Witness ==
    /\ disc.promise = "resolved" /\ disc.nrx = 3 /\ ~disc.late
    /\ Len(disc.returned) = 2
    /\ disc.returned[1] =
         [model    |-> <<109, 111, 100, 101, 108, 53>>,
          ip       |-> "10.0.0.5",
          firmware |-> <<49, 50, 46, 48, 46, 49, 48>>,
          mac      |-> <<55, 56, 58, 54, 100, 58, 54, 102, 58, 54, 52, 58,
                         54, 53, 58, 54, 99>>,
          serial   |-> <<>>]
    /\ disc.returned[2].model = <<77, 111, 100, 101, 108, 50, 48, 57>>
    /\ disc.returned[2].firmware = <<49, 46, 50, 46, 51>>

---------------------------------------------------------------------------
(* Claims about the codec *)

\* CRC-8/DVB-S2 by its definition: the remainder of the message, followed by
\* eight zero bits, divided by x^8 + x^7 + x^6 + x^4 + x^2 + 1 (0x1D5), the bits
\* taken most significant first, nothing reflected, nothing XORed at the end.
\* MsgBit(data, j) is the j-th bit of the message with its eight zero bits.
MsgBit(data, j) ==
    LET k == ((j - 1) \div 8) + 1
        p == (j - 1) % 8
    IN  IF k > Len(data) THEN 0
        ELSE ((data[k] % 256) \div (2 ^ (7 - p))) % 2

\* one step of the long division: the next bit is shifted into the remainder
DivStep(r, bit) ==
    IF r >= 128 THEN BitXor(((r * 2) % 256) + bit, 213) ELSE (r * 2) + bit

RECURSIVE DivFrom(_, _, _, _)
DivFrom(r, data, lo, hi) ==
    IF lo > hi THEN r
    ELSE IF lo = hi THEN DivStep(r, MsgBit(data, lo))
    ELSE LET mid  == (lo + hi) \div 2
             left == DivFrom(r, data, lo, mid)
         IN  IF left = 0 THEN DivFrom(0, data, mid + 1, hi)
             ELSE DivFrom(left, data, mid + 1, hi)

Crc8DvbS2Ref(data) == DivFrom(0, data, 1, 8 * (Len(data) + 1))

\* C8: crc8DvbS2 is CRC-8/DVB-S2 (0x00 for all-zero input, 0xBC for
\* "123456789"), a value in 0..255, and the last byte of a packet is that
\* checksum of the payload body alone (from 0x5A to the last data byte).
C8_CrcIsDvbS2 ==
    /\ (codec.kind = "crc" /\ codec.done) =>
          /\ codec.crc = Crc8DvbS2Ref(codec.raw)
          /\ codec.crc \in 0..255
          /\ (\A i \in 1..Len(codec.raw) : codec.raw[i] = 0) => codec.crc = 0
          /\ codec.raw = Check123456789 => codec.crc = 188
    /\ (codec.kind = "packet" /\ codec.done /\ codec.out.ok) =>
          LET p == codec.out.packet
          IN  /\ Len(p) >= 27
              /\ p[25] = 90
              /\ p[Len(p)] = Crc8DvbS2Ref(SubSeq(p, 25, Len(p) - 1))
              /\ SubSeq(p, 25, Len(p) - 1) = BufferFrom(codec.out.body)

\* the packet of (13, 0x0A, true): body 5A 0D 02 0A 01, trailer 0x7C
C8_Witness ==
    /\ codec.kind = "packet" /\ codec.done /\ codec.out.ok
    /\ codec.out.body = <<90, 13, 2, 10, 1>>
    /\ codec.out.packet[Len(codec.out.packet)] = 124

\* C9: header byte 3 of a packet is (24 + payload bytes with the checksum)
\* modulo 256, and the header is 24 bytes.
C9_LengthField ==
    (codec.kind = "packet" /\ codec.done /\ codec.out.ok) =>
        LET p == codec.out.packet
            n == Len(codec.out.body) + 1
        IN  /\ Len(p) = 24 + n
            /\ p[4] = (24 + n) % 256
            /\ SubSeq(p, 1, 3) = <<255, 255, 0>>
            /\ SubSeq(p, 5, 24) = SubSeq(buildHeader(0), 5, 24)
            /\ p[25] = 90

\* a packet longer than 255 bytes: the length field has wrapped
C9_Witness ==
    /\ codec.kind = "packet" /\ codec.done /\ codec.out.ok
    /\ Len(codec.out.packet) = 260
    /\ codec.out.packet[4] = 4

\* the part of the payload body after the command id (and the bus byte)
LengthAndData(req, body) ==
    SubSeq(body, IF req.cmdId = CMD_MIC_PRE_BUS THEN 4 ELSE 3, Len(body))

\* C10: with the length field included, a setting with a one-byte value gives
\* the length+data bytes 03, settingId, value, and a three-byte value gives
\* 05, settingId, r, g, b, as the example encodings of build-commands.ts have.
\* (Fails: the length byte is the data block's length, 02 and 04.)
C10_DocumentedLengthAndData ==
    (/\ codec.kind = "packet" /\ codec.done /\ codec.out.ok
     /\ codec.req.addLen /\ codec.req.settingId # <<>>
     /\ codec.req.value.t # "null") =>
        LET vb  == buildValueBytes(codec.req.value).bytes
            sid == codec.req.settingId[1] % 256
            ld  == LengthAndData(codec.req, codec.out.body)
        IN  /\ Len(vb) = 1 => ld = <<3, sid, vb[1]>>
            /\ Len(vb) = 3 => ld = <<5, sid, vb[1], vb[2], vb[3]>>

---------------------------------------------------------------------------
(* Claims about the value encoder *)

ValueDone == codec.kind = "value" /\ codec.done

\* C11: buildValueBytes gives one byte for a boolean (1 for true, 0 for
\* false), the single byte v for an integer 0 <= v <= 255, for an integer
\* v > 255 exactly three bytes that are the low 24 bits of v with the most
\* significant byte first, and for an array one byte per element, the
\* element's low 8 bits, in the same order.
C11_ValueBytes ==
    ValueDone =>
        LET v == codec.req.value
            b == codec.vb.bytes
        IN  /\ v.t \in {"bool", "num", "arr"} => codec.vb.ok
            /\ v.t = "bool" => b = (IF v.n = 1 THEN <<1>> ELSE <<0>>)
            /\ (v.t = "num" /\ v.n >= 0 /\ v.n <= 255) => b = <<v.n>>
            /\ (v.t = "num" /\ v.n > 255) =>
                  /\ Len(b) = 3
                  /\ \A i \in 1..3 : b[i] \in 0..255
                  /\ b[1] * 65536 + b[2] * 256 + b[3] = v.n % 16777216
            /\ v.t = "arr" =>
                  /\ Len(b) = Len(v.a)
                  /\ \A i \in 1..Len(b) :
                        b[i] \in 0..255 /\ (v.a[i] - b[i]) % 256 = 0

\* the colour 0xFF8000 was encoded as FF 80 00
C11_Witness ==
    /\ ValueDone /\ codec.req.value = Num(16744448)
    /\ codec.vb = Ok(<<255, 128, 0>>)

\* C12 as stated: true -> 01, false -> 00, 255 -> FF, 65280 -> FF 00 00,
\* [255, 128, 0] -> FF 80 00.
\* (Fails for 65280 = 0x00FF00, whose bytes are 00 FF 00.)
C12_DocumentedVectors ==
    ValueDone =>
        /\ codec.req.value = Bool(TRUE)  => codec.vb = Ok(<<1>>)
        /\ codec.req.value = Bool(FALSE) => codec.vb = Ok(<<0>>)
        /\ codec.req.value = Num(255)    => codec.vb = Ok(<<255>>)
        /\ codec.req.value = Num(65280)  => codec.vb = Ok(<<255, 0, 0>>)
        /\ codec.req.value = Arr(<<255, 128, 0>>) => codec.vb = Ok(<<255, 128, 0>>)

\* C12 amended: the same vectors, with 65280 (0x00FF00) -> 00 FF 00 and the
\* red-only colour 16711680 (0xFF0000) -> FF 00 00.
C12_Vectors ==
    ValueDone =>
        /\ codec.req.value = Bool(TRUE)   => codec.vb = Ok(<<1>>)
        /\ codec.req.value = Bool(FALSE)  => codec.vb = Ok(<<0>>)
        /\ codec.req.value = Num(255)     => codec.vb = Ok(<<255>>)
        /\ codec.req.value = Num(65280)   => codec.vb = Ok(<<0, 255, 0>>)
        /\ codec.req.value = Num(16711680) => codec.vb = Ok(<<255, 0, 0>>)
        /\ codec.req.value = Arr(<<255, 128, 0>>) => codec.vb = Ok(<<255, 128, 0>>)

\* 65280 was encoded
C12_Witness ==
    /\ ValueDone /\ codec.req.value = Num(65280)
    /\ Len(codec.vb.bytes) = 3 /\ codec.vb.bytes[2] = 255

---------------------------------------------------------------------------
(* Claims about values sendAwaitAck cannot encode *)

\* C13: a sendAwaitAck call whose value is neither null, a boolean, a number
\* nor an array is rejected with the unsupported-value-type error, and the
\* call never opens a socket, arms a timer or sends a packet.
C13_UnsupportedValueRejects ==
    \A c \in Calls :
        (/\ tx[c].promise # "none"
         /\ tx[c].req.value.t \notin {"null", "bool", "num", "arr"}) =>
            /\ tx[c].promise = "rejected"
            /\ tx[c].value = Unsupported
            /\ tx[c].settleCalls = 1
            /\ tx[c].sock = "none" /\ tx[c].sockets = 0
            /\ tx[c].timer = "none" /\ tx[c].sendCb = "none"
            /\ tx[c].sent = 0 /\ tx[c].packet = <<>>

\* one call was made with a string and one with undefined
C13_Witness ==
    \E c \in Calls : \E d \in Calls :
        /\ tx[c].req.value = Str /\ tx[c].promise = "rejected"
        /\ tx[d].req.value = Undefined /\ tx[d].promise = "rejected"

---------------------------------------------------------------------------
(* Claims about the bus byte *)

PacketDone == codec.kind = "packet" /\ codec.done /\ codec.out.ok

\* C14: the payload body built for the mic-pre-bus command id is the body
\* built for the same setting id, value and length option under another
\* command id, with one 0x00 byte put in right after the command-id byte:
\* everything after it, the length byte included, is the same. For every
\* other command id (one with the same low byte included) nothing is put in.
C14_BusByte ==
    PacketDone =>
        LET body  == codec.out.body
            plain == buildPacket([codec.req EXCEPT !.cmdId = 13]).body
            rest  == SubSeq(plain, 3, Len(plain))
        IN  /\ plain[1] = 90 /\ plain[2] = 13
            /\ codec.req.cmdId = CMD_MIC_PRE_BUS =>
                  /\ body = <<90, CMD_MIC_PRE_BUS % 256, 0>> \o rest
                  /\ Len(body) = Len(plain) + 1
            /\ codec.req.cmdId # CMD_MIC_PRE_BUS =>
                  /\ body = <<90, codec.req.cmdId % 256>> \o rest
                  /\ Len(body) = Len(plain)

\* the mic-pre-bus packet of (0x0A, true) with its length byte:
\* 5A, the command id, 00, 02, 0A, 01
C14_Witness ==
    /\ PacketDone /\ codec.req.cmdId = CMD_MIC_PRE_BUS /\ codec.req.addLen
    /\ codec.req.settingId = <<10>> /\ codec.req.value = Bool(TRUE)
    /\ codec.out.body = <<90, CMD_MIC_PRE_BUS, 0, 2, 10, 1>>

---------------------------------------------------------------------------
(* Claims about the declared type and the encoded length *)

\* C15: the declared type of a parameter fixes the number of value bytes: two
\* values of one checkbox or colour parameter are encoded in the same number
\* of bytes, every colour 0x000000..0xFFFFFF in three bytes and every integer
\* 0..255 in one.
\* (Fails: a colour up to 0x0000FF is encoded in one byte, as the number is.)
C15_TypeFixesLength ==
    (ValueDone /\ codec.vb.ok) =>
        LET n == Len(codec.vb.bytes)
        IN  /\ codec.ptype = "colorpicker" => n = 3
            /\ (codec.ptype = "number" /\ codec.req.value.n \in 0..255) => n = 1
            /\ codec.ptype \in {"checkbox", "colorpicker"} =>
                  \A tv \in TypedValues :
                      tv.ptype = codec.ptype =>
                          Len(buildValueBytes(tv.value).bytes) = n

---------------------------------------------------------------------------
(* Claims about the schema registry *)

LoadDone == ui.kind = "load" /\ ui.done

\* the files of a directory that are schema files: .json files that are not
\* raw-command companions
SchemaFiles(dir) ==
    { dir[i] : i \in { k \in DOMAIN dir :
                         /\ endsWith(dir[k].name, JsonSuffix)
                         /\ ~endsWith(dir[k].name, CommandsSuffix) } }

WellFormed(f) == f.content.json = "object" /\ f.content.hasModel

\* C17: when a schema file of the directory is not valid JSON or has no
\* `model` member, loadUiSchemas fails: it returns no registry.
\* (Fails: a file without `model` is registered under the key "undefined".)
C17_MalformedFileFailsLoad ==
    (LoadDone /\ \E f \in SchemaFiles(ui.dir) : ~WellFormed(f)) =>
        ~ui.registry.ok

\* C18: for a directory whose schema files are all well-formed, loadUiSchemas
\* returns a registry with exactly one entry per distinct `model` value of
\* the schema files, each keyed by the `model` value of the file it holds;
\* a file ending in _commands.json gives no entry.
C18_OneEntryPerModel ==
    (LoadDone /\ \A f \in SchemaFiles(ui.dir) : WellFormed(f)) =>
        LET out    == ui.registry.out
            models == { f.content.model : f \in SchemaFiles(ui.dir) }
        IN  /\ ui.registry.ok
            /\ { out[i].key : i \in DOMAIN out } = models
            /\ Len(out) = Cardinality(models)
            /\ \A i \in DOMAIN out :
                  /\ out[i].value.model = out[i].key
                  /\ \E f \in SchemaFiles(ui.dir) : f.content = out[i].value
            /\ \A i \in DOMAIN out : out[i].key # "209raw"

\* a directory with two schema files of model 209 and a raw-command file:
\* one entry, keyed 209, holding the file listed later
C18_Witness ==
    /\ LoadDone /\ Len(ui.dir) = 3
    /\ ui.dir[1].name = <<"a">> \o JsonSuffix
    /\ ui.dir[2].name = <<"a">> \o CommandsSuffix
    /\ ui.dir[3].name = <<"f">> \o JsonSuffix
    /\ ui.registry.ok /\ Len(ui.registry.out) = 1
    /\ ui.registry.out[1].key = "209"
    /\ ui.registry.out[1].value.actions = <<EncoderColor>>

---------------------------------------------------------------------------
(* Claims about the table builder *)

\* a table was built from a directory whose schema files are all well-formed
ActionsBuilt ==
    /\ ui.kind = "actions" /\ ui.done /\ ui.table.ok
    /\ \A f \in SchemaFiles(ui.dir) : WellFormed(f)
FeedbacksBuilt ==
    /\ ui.kind = "feedbacks" /\ ui.done /\ ui.table.ok
    /\ \A f \in SchemaFiles(ui.dir) : WellFormed(f)

\* the registry the tables are built from
RegistryOf(dir) == loadUiSchemas(dir).out

\* C19: the action table has an entry for every action descriptor of every
\* model of the registry, built for that model, and the feedback table one
\* for every feedback descriptor, also when another model has no actions or
\* no feedbacks.
\* (Fails: the first model without actions, or without feedbacks, ends the
\* build, and the models after it get no entries.)
C19_EveryDescriptorHasAnEntry ==
    /\ ActionsBuilt =>
          \A i \in DOMAIN RegistryOf(ui.dir) :
              LET e == RegistryOf(ui.dir)[i]
              IN  \A k \in DOMAIN e.value.actions :
                      /\ actionId(e.key, e.value.actions[k]) \in DOMAIN ui.table.table
                      /\ ui.table.table[actionId(e.key, e.value.actions[k])].model
                             = e.key
    /\ FeedbacksBuilt =>
          \A i \in DOMAIN RegistryOf(ui.dir) :
              LET e == RegistryOf(ui.dir)[i]
              IN  \A k \in DOMAIN e.value.feedbacks :
                      /\ fbId(e.key, e.value.feedbacks[k]) \in DOMAIN ui.table.table
                      /\ ui.table.table[fbId(e.key, e.value.feedbacks[k])].model
                             = e.key

\* two descriptors with the same model, command id and setting id
SameTriple(s1, s2) == s1.id = s2.id /\ s1.cmd_id = s2.cmd_id

\* C20: when two descriptors of a model of the registry have the same
\* command id and setting id, the built table has an entry under their id and
\* it is the one built from the later descriptor.
\* (Fails with C19: when an earlier model ends the build, the table has no
\* entry under that id at all.)
C20_LaterDescriptorReplaces ==
    /\ ActionsBuilt =>
          \A i \in DOMAIN RegistryOf(ui.dir) :
              LET e    == RegistryOf(ui.dir)[i]
                  defs == e.value.actions
              IN  \A k1 \in DOMAIN defs : \A k2 \in DOMAIN defs :
                      (/\ k1 < k2 /\ SameTriple(defs[k1], defs[k2])
                       /\ \A k3 \in DOMAIN defs :
                             (k3 > k2) => defs[k3].id # defs[k2].id) =>
                          /\ actionId(e.key, defs[k2]) \in DOMAIN ui.table.table
                          /\ ui.table.table[actionId(e.key, defs[k2])].s = defs[k2]
                          /\ ui.table.table[actionId(e.key, defs[k2])].s # defs[k1]
    /\ FeedbacksBuilt =>
          \A i \in DOMAIN RegistryOf(ui.dir) :
              LET e    == RegistryOf(ui.dir)[i]
                  defs == e.value.feedbacks
              IN  \A k1 \in DOMAIN defs : \A k2 \in DOMAIN defs :
                      (/\ k1 < k2 /\ SameTriple(defs[k1], defs[k2])
                       /\ \A k3 \in DOMAIN defs :
                             (k3 > k2) => defs[k3].id # defs[k2].id) =>
                          /\ fbId(e.key, defs[k2]) \in DOMAIN ui.table.table
                          /\ ui.table.table[fbId(e.key, defs[k2])].s = defs[k2]
                          /\ ui.table.table[fbId(e.key, defs[k2])].s # defs[k1]

---------------------------------------------------------------------------
(* Claims about invoking an action *)

\* the values a parameter admits: its type, its choices, its range
ValidFor(s, v) ==
    CASE s.type = "checkbox"    -> v.t = "bool"
      [] s.type = "number"      -> v.t = "num" /\ v.n >= s.min /\ v.n <= s.max
      [] s.type = "dropdown"    -> v.t = "num" /\ v.n \in s.choices
      [] s.type = "colorpicker" -> v.t = "num" /\ v.n \in 0..16777215
      [] OTHER                  -> v.t = "str"

\* C16: an action invoked with a value that is not of its parameter's type,
\* not one of its choices or outside its range is rejected with a validation
\* error and no sendAwaitAck call is made.
\* (Fails: the callback validates nothing. Without a send function it logs
\* and returns normally; with the send function of UpdateActions every
\* invocation, valid or not, ends in the TypeError of its log line.)
C16_InvalidValueRejected ==
    (/\ ui.kind = "actions" /\ ui.inv.outcome # "none"
     /\ ~ValidFor(ui.table.table[ui.inv.key].s, ui.inv.value)) =>
        /\ ui.inv.outcome = "rejected"
        /\ ui.inv.error = "ValidationError"
        /\ ui.inv.calls = <<>>

---------------------------------------------------------------------------
(* Claims about the ids of the table entries *)

\* every model of the registry has actions (feedbacks): nothing ends the
\* build early
AllHaveActions(dir) ==
    \A i \in DOMAIN RegistryOf(dir) : RegistryOf(dir)[i].value.hasActions
AllHaveFeedbacks(dir) ==
    \A i \in DOMAIN RegistryOf(dir) : RegistryOf(dir)[i].value.hasFeedbacks

\* C21: two descriptors of the registry that differ in model, command id or
\* setting id get different ids, and each has its own entry in the built
\* table, also two settings of one model with the same setting id under
\* different command ids.
\* (Fails: the id is made of the model and the setting id only, so the later
\* of two such settings replaces the earlier.)
C21_DistinctTriplesDistinctIds ==
    /\ (ActionsBuilt /\ AllHaveActions(ui.dir)) =>
          \A i1 \in DOMAIN RegistryOf(ui.dir) : \A i2 \in DOMAIN RegistryOf(ui.dir) :
              LET e1 == RegistryOf(ui.dir)[i1]
                  e2 == RegistryOf(ui.dir)[i2]
              IN  \A k1 \in DOMAIN e1.value.actions :
                  \A k2 \in DOMAIN e2.value.actions :
                      LET s1 == e1.value.actions[k1]
                          s2 == e2.value.actions[k2]
                      IN  (e1.key # e2.key \/ ~SameTriple(s1, s2)) =>
                              /\ actionId(e1.key, s1) # actionId(e2.key, s2)
                              /\ ui.table.table[actionId(e1.key, s1)].s.cmd_id
                                     = s1.cmd_id
                              /\ ui.table.table[actionId(e2.key, s2)].s.cmd_id
                                     = s2.cmd_id
    /\ (FeedbacksBuilt /\ AllHaveFeedbacks(ui.dir)) =>
          \A i1 \in DOMAIN RegistryOf(ui.dir) : \A i2 \in DOMAIN RegistryOf(ui.dir) :
              LET e1 == RegistryOf(ui.dir)[i1]
                  e2 == RegistryOf(ui.dir)[i2]
              IN  \A k1 \in DOMAIN e1.value.feedbacks :
                  \A k2 \in DOMAIN e2.value.feedbacks :
                      LET s1 == e1.value.feedbacks[k1]
                          s2 == e2.value.feedbacks[k2]
                      IN  (e1.key # e2.key \/ ~SameTriple(s1, s2)) =>
                              fbId(e1.key, s1) # fbId(e2.key, s2)

---------------------------------------------------------------------------
(* Claims about sockets and packets per call *)

Encodable(v) == v.t \in {"null", "bool", "num", "arr"}

\* C22 as stated: every sendAwaitAck call opens exactly one socket and sends
\* at most one packet.
\* (Fails: a call with a value that cannot be encoded opens no socket.)
C22_EveryCallOpensOneSocket ==
    \A c \in Calls :
        tx[c].promise # "none" => (tx[c].sockets = 1 /\ tx[c].sent <= 1)

\* C22 amended: a sendAwaitAck call opens exactly one socket when its value
\* can be encoded and none otherwise, and sends at most one packet; once a
\* timeout, a socket error or a send failure has ended the call, no packet is
\* sent and no socket is opened by it.
C22_OneSocketOnePacket ==
    /\ [](\A c \in Calls :
            tx[c].promise # "none" =>
                /\ tx[c].sockets = (IF Encodable(tx[c].req.value) THEN 1 ELSE 0)
                /\ tx[c].sent <= 1
                /\ tx[c].sent <= tx[c].sockets)
    /\ [][\A c \in Calls :
            tx[c].first \in {"timeout", "error", "sendError"} =>
                /\ tx'[c].sent = tx[c].sent
                /\ tx'[c].sockets = tx[c].sockets]_vars

\* a call sent its packet, timed out, and a datagram came after that; the
\* call has one socket and one packet sent
C22_Witness ==
    \E c \in Calls :
        /\ tx[c].first = "timeout" /\ tx[c].promise = "rejected"
        /\ tx[c].late
        /\ tx[c].sent = 1 /\ tx[c].sockets = 1

---------------------------------------------------------------------------
(* Claims about the phases of discovery *)

\* the phases in their order: idle, socket created and binding, collecting
\* (bound, broadcast on, probe handed to send), closed and returned
PhaseRank(pc) ==
    CASE pc = "idle"       -> 0
      [] pc = "binding"    -> 1
      [] pc = "collecting" -> 2
      [] pc = "returned"   -> 3

\* C23: a discoverDevices call only moves forward through its phases; the
\* probe is handed to send only on the bound socket with broadcast enabled;
\* one window timer is started, not more; the record set changes only while
\* the call is collecting on its open socket; and once the call is closed,
\* by the window timer or a socket error, the returned records never change.
C23_DiscoveryMovesForward ==
    /\ [](/\ disc.probe # "none" =>
               (disc.broadcast /\ disc.pc \in {"collecting", "returned"})
          /\ disc.timers <= 1
          /\ disc.pc \in {"collecting", "returned"} => disc.timers = 1
          /\ disc.pc \in {"idle", "binding"} =>
               (disc.keys = <<>> /\ disc.timer = "none")
          /\ disc.pc = "returned" =>
               (disc.sock = "closed" /\ disc.promise = "resolved"
                /\ disc.timer \in {"fired", "cleared"}))
    /\ [][/\ PhaseRank(disc'.pc) >= PhaseRank(disc.pc)
          /\ PhaseRank(disc'.pc) <= PhaseRank(disc.pc) + 1
          /\ (disc'.discovered # disc.discovered \/ disc'.keys # disc.keys) =>
               (disc.pc = "collecting" /\ disc.sock = "open"
                /\ disc'.pc = "collecting")
          /\ disc.pc = "returned" =>
               (/\ disc'.returned = disc.returned
                /\ disc'.discovered = disc.discovered
                /\ disc'.keys = disc.keys
                /\ disc'.sock = "closed")]_vars

\* the call returned one record when a socket error closed it, and two more
\* datagrams came afterwards
C23_Witness ==
    /\ disc.pc = "returned" /\ disc.timer = "cleared"
    /\ Len(disc.returned) = 1 /\ disc.nrx = 3 /\ disc.late
    /\ disc.probe = "sent"

---------------------------------------------------------------------------
(* Claims about the send function of UpdateActions *)

\* C24: an action built by UpdateActions and invoked with a value its
\* parameter admits makes one sendAwaitAck call, for the entry's model, with
\* the descriptor's cmd_id as command id, its id as setting id, the option
\* value as value and the configured host as destination, and the invocation
\* awaits that call.
\* (Fails: the callback passes four arguments to a send function of five
\* parameters; its fifth, value, is undefined and the log line's
\* value.toString(16) throws a TypeError before sendAwaitAck is called.)
C24_InvocationStartsOneTransaction ==
    (/\ ui.kind = "actions" /\ ui.sendFn = "UpdateActions"
     /\ ui.inv.outcome # "none"
     /\ ValidFor(ui.table.table[ui.inv.key].s, ui.inv.value)) =>
        LET entry == ui.table.table[ui.inv.key]
        IN  /\ ui.inv.outcome = "awaits"
            /\ Len(ui.inv.calls) = 1
            /\ ui.inv.calls[1].model = entry.model
            /\ ui.inv.calls[1].cmdId = Num(entry.s.cmd_id)
            /\ ui.inv.calls[1].settingId = Num(entry.s.id)
            /\ ui.inv.calls[1].value = ui.inv.value
            /\ ui.inv.calls[1].destIp = ConfigHost


---------------------------------------------------------------------------
(* Claims about the callback of a feedback entry *)

Evaluated == ui.kind = "feedbacks" /\ ui.fb.evaluated

\* the snapshot holds a value at [model][settingId]
Holds(state, model, id) ==
    /\ state.defined /\ model \in state.models
    /\ \E e \in state.values : e.model = model /\ e.id = id

\* C25: a feedback entry's callback only compares. It returns true exactly
\* when the snapshot's value at [model][settingId] (undefined when the
\* snapshot holds none) is the same primitive value as the feedback's
\* configured option value, so it returns false when the model is absent
\* from the snapshot and an option value is set; the snapshot is the same
\* after the call as before; the feedback table is not changed by an
\* evaluation, and an evaluation with the arguments of the previous one
\* gives the result of the previous one.
C25_FeedbackOnlyCompares ==
    /\ [](Evaluated =>
            LET entry == ui.table.table[ui.fb.key]
                held  == Holds(ui.fb.state, entry.model, entry.s.id)
            IN  /\ ui.fb.result \in BOOLEAN
                /\ held =>
                     (ui.fb.result <=>
                        \E e \in ui.fb.state.values :
                            /\ e.model = entry.model /\ e.id = entry.s.id
                            /\ e.value.t = ui.fb.option.t
                            /\ e.value.n = ui.fb.option.n)
                /\ ~held => (ui.fb.result <=> ui.fb.option.t = "undef")
                /\ (entry.model \notin ui.fb.state.models
                        /\ ui.fb.option.t # "undef") => ~ui.fb.result
                /\ ui.fb.stateAfter = ui.fb.state)
    /\ [][(Evaluated /\ ui'.fb.evaluated) =>
            /\ ui'.table = ui.table
            /\ (/\ ui'.fb.key = ui.fb.key /\ ui'.fb.option = ui.fb.option
                /\ ui'.fb.state = ui.fb.state) =>
                    ui'.fb.result = ui.fb.result]_vars

\* a callback has answered true on a snapshot that holds the value, false
\* on one that holds a different value, and false on one without the model
C25_Witness ==
    /\ Evaluated
    /\ LET entry == ui.table.table[ui.fb.key]
       IN  /\ Holds(ui.fb.state, entry.model, entry.s.id)
           /\ ui.fb.result
           /\ ui.fb.option.t = "bool"

C25_WitnessAbsent ==
    /\ Evaluated
    /\ ui.table.table[ui.fb.key].model \notin ui.fb.state.models
    /\ ui.fb.state.defined
    /\ ui.fb.option.t # "undef"
    /\ ~ui.fb.result

C25_WitnessDifferentType ==
    /\ Evaluated
    /\ LET entry == ui.table.table[ui.fb.key]
       IN  /\ Holds(ui.fb.state, entry.model, entry.s.id)
           /\ lookup(ui.fb.state, entry.model, entry.s.id) = Num(1)
           /\ ui.fb.option = Bool(TRUE)
           /\ ~ui.fb.result



---------------------------------------------------------------------------
(* Claims about closing the sockets *)

\* C26: in sendAwaitAck and in discoverDevices close() is never called on a
\* socket that is already closed, whatever the order and repetition of
\* message events, 'error' events, the send-callback error and the timer.
C26_NeverClosesAClosedSocket ==
    /\ \A c \in Calls : ~tx[c].closeThrew
    /\ ~disc.closeThrew



---------------------------------------------------------------------------
(* Claims about verifying a packet *)

\* C27: crc8DvbS2 over a body followed by the checksum crc8DvbS2 gave for
\* that body is 0; so for a packet built by sendAwaitAck, crc8DvbS2 over
\* everything after the 24-byte header, the trailer included, is 0.
C27_BodyPlusTrailerChecksIsZero ==
    /\ (codec.kind = "crc" /\ codec.done) =>
          crc8DvbS2(codec.raw \o <<codec.crc>>) = 0
    /\ PacketDone =>
          LET p == codec.out.packet
          IN  /\ crc8DvbS2(SubSeq(p, 25, Len(p))) = 0
              /\ crc8DvbS2(BufferFrom(codec.out.body) \o <<p[Len(p)]>>) = 0

\* "123456789" got the checksum 0xBC, which is not 0
C27_Witness ==
    /\ codec.kind = "crc" /\ codec.done
    /\ codec.raw = Check123456789 /\ codec.crc = 188
    /\ crc8DvbS2(codec.raw) # 0

\* a packet with a setting id and a value got a checksum that is not 0
C27_WitnessPacket ==
    /\ PacketDone
    /\ Len(codec.out.body) >= 5
    /\ codec.out.packet[Len(codec.out.packet)] # 0


===========================================================================
